---- MODULE Spec2Model ----
(***************************************************************************)
(* A model of frontmatter-fixer: the delimiter parser of                   *)
(* src/src/frontmatter.rs and the Fixer session and batch loop of          *)
(* src/src/main.rs.                                                        *)
(*                                                                         *)
(* Texts are sequences of one-character strings.  YAML values and Lua      *)
(* values are tagged tuples <<tag, payload>>.                              *)
(***************************************************************************)
EXTENDS Integers, Sequences, FiniteSets, TLC

VARIABLES
    text,       \* SpecParse: the text handed to parse_raw
    parsed,     \* SpecParse: what parse_raw returned for it, <<"Pending">> before
    cfg,        \* main: the parsed Config
    pc,         \* main: where the run is
    script,     \* Fixer.script: Some(precompiled script), None in REPL mode
    globals,    \* Fixer.lua: the globals of the Lua session
    idx,        \* main: the position in cfg.paths of the path being processed
    ok_paths,   \* main: the paths processed successfully
    err_paths,  \* main: the <<path, error>> pairs of the paths that failed
    content,    \* process: the text read from the current path
    fixed,      \* process: what Fixer::fix returned, <<metadata, body>>
    fs,         \* per path, whether the file is the original or was replaced
    persisted,  \* the text last renamed over a path, None before
    printed,    \* the text last written to stdout, None before
    stdin_eof,  \* whether stdin reported end-of-stream
    lines_read, \* the number of lines read from stdin
    attempts,   \* history: the paths handed to process, in order
    runs,       \* history: the number of script calls and REPL evaluations
    input,      \* fix, REPL branch: the line buffer, a sequence of lines
    reports     \* what the REPL loop of the call printed so far, per line

mvars == <<cfg, pc, script, globals, idx, ok_paths, err_paths, content, fixed,
           fs, persisted, printed, stdin_eof, lines_read, attempts, runs,
           input, reports>>

vars == <<text, parsed, cfg, pc, script, globals, idx, ok_paths, err_paths,
          content, fixed, fs, persisted, printed, stdin_eof, lines_read,
          attempts, runs, input, reports>>

(***************************************************************************)
(* Option and Result                                                       *)
(***************************************************************************)
None == <<"None">>
Some(x) == <<"Some", x>>
IsSome(o) == o[1] = "Some"
Ok(x) == <<"Ok", x>>
Err(e) == <<"Err", e>>
IsOk(r) == r[1] = "Ok"

\* no result yet
Pending == <<"Pending">>

\* fix has returned nothing (yet)
NoFix == <<None, <<>>>>

(***************************************************************************)
(* Texts                                                                   *)
(***************************************************************************)
Rule == <<"-", "-", "-", "\n">>

RULE_LENGTH == 4

RECURSIVE Flatten(_)
Flatten(ss) ==
    IF ss = <<>> THEN <<>> ELSE Head(ss) \o Flatten(Tail(ss))

\* s[from..] in Rust's half-open, 0-based notation
SliceFrom(s, from) == SubSeq(s, from + 1, Len(s))
\* s[from..to]
Slice(s, from, to) == SubSeq(s, from + 1, to)

(***************************************************************************)
(* frontmatter::parse_raw                                                  *)
(***************************************************************************)
\* "---\n" occurs in s at byte offset i
RuleAt(s, i) ==
    /\ i >= 0
    /\ i + RULE_LENGTH <= Len(s)
    /\ Slice(s, i, i + RULE_LENGTH) = Rule

\* the next item of s.match_indices("---\n") when the search resumes at
\* offset from: the offset of the match, or -1 for None
NextRule(s, from) ==
    IF \E i \in from..Len(s) : RuleAt(s, i)
    THEN CHOOSE i \in from..Len(s) :
             RuleAt(s, i) /\ \A j \in from..(i - 1) : ~RuleAt(s, j)
    ELSE -1

\* a slip: the last occurrence of the rule closes the block
CloseRule_last(s) ==
    IF \E i \in RULE_LENGTH..Len(s) : RuleAt(s, i)
    THEN CHOOSE i \in RULE_LENGTH..Len(s) :
             RuleAt(s, i) /\ \A j \in (i + 1)..Len(s) : ~RuleAt(s, j)
    ELSE -1

\* a slip: the search for the closing rule starts over at the beginning of
\* the text
CloseRule_restart(s) == NextRule(s, 0)

\* the closing rule parse_raw uses: the second item of match_indices
CloseRule(s) == NextRule(s, RULE_LENGTH)

\* assert! failed, or a slice was out of range: the thread panics
Panic == <<"Panic">>

\* &s[from..to] does not panic
InRange(s, from, to) == from <= to /\ to <= Len(s)

\* a slip: the first rule found opens the frontmatter wherever it is, and an
\* unclosed block runs to the end of the text
parse_raw_lenient(s) ==
    LET open == NextRule(s, 0)
    IN  IF open # -1
        THEN LET close == NextRule(s, open + RULE_LENGTH)
             IN  IF close # -1
                 THEN <<Some(Slice(s, open + RULE_LENGTH, close)),
                        SliceFrom(s, close + RULE_LENGTH)>>
                 ELSE <<Some(SliceFrom(s, open + RULE_LENGTH)), <<>>>>
        ELSE <<None, s>>

parse_raw(s) ==
    IF NextRule(s, 0) = 0
    THEN LET start == RULE_LENGTH
             close == CloseRule(s)
             content_start == close + RULE_LENGTH
         IN  IF close # -1
             THEN IF ~(start <= close)
                  THEN Panic
                  ELSE IF ~(content_start <= Len(s))
                  THEN Panic
                  ELSE IF ~(InRange(s, start, close) /\ InRange(s, content_start, Len(s)))
                  THEN Panic
                  ELSE <<Some(Slice(s, start, close)), SliceFrom(s, content_start)>>
             ELSE <<None, s>>
    ELSE <<None, s>>

(***************************************************************************)
(* serde_yaml::Value (the StructuredValue of the metadata)                 *)
(* Strings are sequences of characters; a mapping is the sequence of its   *)
(* <<key, value>> pairs in insertion order.                                *)
(***************************************************************************)
YNull == <<"Null">>
YBool(b) == <<"Bool", b>>
YNum(n) == <<"Number", n>>
YStr(s) == <<"String", s>>
YSeq(items) == <<"Sequence", items>>
YMap(pairs) == <<"Mapping", pairs>>

(***************************************************************************)
(* mlua::Value (the engine's values).  A table is its array-metatable      *)
(* mark and the set of its <<key, value>> entries: a Lua table keeps no    *)
(* insertion order.                                                        *)
(***************************************************************************)
LNil == <<"Nil">>
LNull == <<"LightUserData">>
LBool(b) == <<"Boolean", b>>
LInt(n) == <<"Integer", n>>
LStr(s) == <<"String", s>>
LFun(f) == <<"Function", f>>
LTable(arr, entries) == <<"Table", arr, entries>>

IsTable(lv) == lv[1] = "Table"

HasKey(t, k) == \E e \in t[3] : e[1] = k

\* t[k], nil when the key is absent
RawGet(t, k) ==
    IF HasKey(t, k) THEN (CHOOSE e \in t[3] : e[1] = k)[2] ELSE LNil

\* t[k] = x; assigning nil removes the key
RawSet(t, k, x) ==
    LTable(t[2], {e \in t[3] : e[1] # k} \cup (IF x = LNil THEN {} ELSE {<<k, x>>}))

\* lua_rawlen: the border n with t[1..n] present
RawLen(t) ==
    CHOOSE n \in 0..Cardinality(t[3]) :
        /\ \A i \in 1..n : HasKey(t, LInt(i))
        /\ ~HasKey(t, LInt(n + 1))

(***************************************************************************)
(* The value bridge: LuaSerdeExt::to_value and from_value                  *)
(***************************************************************************)
RECURSIVE ToValue(_)
\* lua.to_value(&metadata): unit becomes the null light userdata, a sequence
\* a table with the array metatable, a mapping a table filled by raw_set.
\* The call succeeds on every value of the model (none has a NaN key).
ToValue(v) ==
    CASE v[1] = "Null" -> LNull
      [] v[1] = "Bool" -> LBool(v[2])
      [] v[1] = "Number" -> LInt(v[2])
      [] v[1] = "String" -> LStr(v[2])
      [] v[1] = "Sequence" ->
            LTable(TRUE, {<<LInt(i), ToValue(v[2][i])>> : i \in 1..Len(v[2])})
      [] v[1] = "Mapping" ->
            LET n == Len(v[2])
                key(i) == ToValue(v[2][i][1])
                last == {i \in 1..n : \A j \in (i + 1)..n : key(j) # key(i)}
            IN  LTable(FALSE, {<<key(i), ToValue(v[2][i][2])>> : i \in last})

\* the orders in which a traversal may yield the members of a finite set
Orderings(S) ==
    {f \in [1..Cardinality(S) -> S] : \A i, j \in DOMAIN f : i # j => f[i] # f[j]}

\* every way to pick one member of each set of a sequence of sets
Picks(sets) ==
    {f \in [DOMAIN sets -> UNION {sets[i] : i \in DOMAIN sets}] :
        \A i \in DOMAIN sets : f[i] \in sets[i]}

AllOk(rs) == \A i \in DOMAIN rs : IsOk(rs[i])

RECURSIVE FromValue(_)
\* lua.from_value::<yaml::Value>(lv): the set of results the call may give.
\* nil and the null light userdata become Null; a table with a positive
\* raw length or the array metatable is read as the sequence t[1..n], any
\* other table as a mapping in the order the table traversal yields its
\* entries, which Lua leaves unspecified; a function has no counterpart.
FromValue(lv) ==
    CASE lv[1] = "Nil" -> {Ok(YNull)}
      [] lv[1] = "LightUserData" -> {Ok(YNull)}
      [] lv[1] = "Boolean" -> {Ok(YBool(lv[2]))}
      [] lv[1] = "Integer" -> {Ok(YNum(lv[2]))}
      [] lv[1] = "String" -> {Ok(YStr(lv[2]))}
      [] lv[1] = "Function" -> {Err("convert")}
      [] lv[1] = "Table" ->
            IF RawLen(lv) > 0 \/ lv[2]
            THEN LET n == RawLen(lv)
                     items == [i \in 1..n |-> FromValue(RawGet(lv, LInt(i)))]
                 IN  {IF AllOk(f) THEN Ok(YSeq([i \in 1..n |-> f[i][2]]))
                                  ELSE Err("convert") : f \in Picks(items)}
            ELSE UNION {
                   LET m == Len(ord)
                       ks == [i \in 1..m |-> FromValue(ord[i][1])]
                       vs == [i \in 1..m |-> FromValue(ord[i][2])]
                   IN  {IF AllOk(fk) /\ AllOk(fv)
                        THEN Ok(YMap([i \in 1..m |-> <<fk[i][2], fv[i][2]>>]))
                        ELSE Err("convert") : fk \in Picks(ks), fv \in Picks(vs)}
                   : ord \in Orderings(lv[3])}

\* lua.from_value::<Option<yaml::Value>>(lv): deserialize_option gives None
\* for nil and for the null light userdata, Some(value) for the rest
FromValueOption(lv) ==
    IF lv = LNil \/ lv = LNull
    THEN {Ok(None)}
    ELSE {IF IsOk(r) THEN Ok(Some(r[2])) ELSE r : r \in FromValue(lv)}

(***************************************************************************)
(* serde_yaml::to_string and serde_yaml::from_str                          *)
(***************************************************************************)
Digit == <<"0", "1", "2", "3", "4", "5", "6", "7", "8", "9">>

RECURSIVE Digits(_)
Digits(n) ==
    IF n < 10 THEN <<Digit[n + 1]>> ELSE Digits(n \div 10) \o <<Digit[(n % 10) + 1]>>

\* a value written on one line: a scalar or an empty collection
IsInline(v) ==
    \/ v[1] \in {"Null", "Bool", "Number", "String"}
    \/ v[2] = <<>>

Inline(v) ==
    CASE v[1] = "Null" -> <<"n", "u", "l", "l">>
      [] v[1] = "Bool" ->
            IF v[2] THEN <<"t", "r", "u", "e">> ELSE <<"f", "a", "l", "s", "e">>
      [] v[1] = "Number" -> Digits(v[2])
      [] v[1] = "String" -> v[2]
      [] v[1] = "Sequence" -> <<"[", "]">>
      [] v[1] = "Mapping" -> <<"{", "}">>

Indent(lines) == [i \in DOMAIN lines |-> <<" ", " ">> \o lines[i]]

RECURSIVE YamlLines(_)
\* the lines of the block-style document serde_yaml emits for v
YamlLines(v) ==
    IF IsInline(v)
    THEN <<Inline(v)>>
    ELSE IF v[1] = "Sequence"
    THEN Flatten([i \in 1..Len(v[2]) |->
             LET ls == YamlLines(v[2][i])
             IN  <<<<"-", " ">> \o Head(ls)>> \o Indent(Tail(ls))])
    ELSE Flatten([i \in 1..Len(v[2]) |->
             LET k == Inline(v[2][i][1])
                 x == v[2][i][2]
             IN  IF IsInline(x)
                 THEN <<k \o <<":", " ">> \o Inline(x)>>
                 ELSE IF x[1] = "Mapping"
                 THEN <<k \o <<":">>>> \o Indent(YamlLines(x))
                 ELSE <<k \o <<":">>>> \o YamlLines(x)])

YamlToString(v) ==
    LET ls == YamlLines(v)
    IN  Flatten([i \in DOMAIN ls |-> ls[i] \o <<"\n">>])

H == <<"h">>
W == <<"w">>
X == <<"x">>

\* the metadata values of the documents of the model
Decodable ==
    { YMap(<<<<YStr(H), YStr(W)>>>>),
      YMap(<<<<YStr(H), YStr(W)>>, <<YStr(X), YNum(1)>>>>),
      YMap(<<<<YNum(1), YStr(W)>>>>),
      YMap(<<<<YStr(H), YMap(<<<<YStr(X), YSeq(<<YNull, YBool(TRUE)>>)>>>>)>>>>),
      YMap(<<>>),
      YSeq(<<>>),
      YSeq(<<YStr(W)>>),
      YNull,
      YNum(1) }

\* serde_yaml::from_str::<Value>(block) on the blocks of the model: the
\* document of a value decodes to it; the empty block does not decode
YamlFromStr(block) ==
    IF \E v \in Decodable : YamlToString(v) = block
    THEN Ok(CHOOSE v \in Decodable : YamlToString(v) = block)
    ELSE Err("decode")

\* frontmatter::parse
parse(s) ==
    LET raw == parse_raw(s)
    IN  <<IF IsSome(raw[1]) THEN Some(YamlFromStr(raw[1][2])) ELSE None, raw[2]>>

\* frontmatter::write: the text the writer receives
\* a slip: the rule that closes the block is not written
write_noClose(frontmatter, body) ==
    (IF IsSome(frontmatter)
     THEN Rule \o YamlToString(frontmatter[2])
     ELSE <<>>) \o body

\* a slip: the rules are written around the body of every document
write_alwaysRules(frontmatter, body) ==
    Rule \o (IF IsSome(frontmatter) THEN YamlToString(frontmatter[2]) ELSE <<>>)
         \o Rule \o body

write(frontmatter, body) ==
    (IF IsSome(frontmatter)
     THEN Rule \o YamlToString(frontmatter[2]) \o Rule
     ELSE <<>>) \o body

(***************************************************************************)
(* Lua scripts: a script is a sequence of statements, each named by its    *)
(* Lua source.  'h' stands for the key hello, 'w' for world, 'f' for fish, *)
(* 'v' for vanilla.  Every script terminates, and none sets a metatable on *)
(* the table of globals.                                                   *)
(***************************************************************************)
F == <<"f">>
V == <<"v">>

Stmts ==
    { "meta.h = meta.h .. 'f'",
      "content = 'v'",
      "content.fudge = 'v'",
      "meta = { h = 'w' }",
      "meta = nil",
      "meta = print",
      "saved = meta",
      "meta = saved",
      "yaml_dump = nil",
      "error()",
      "meta.h =" }

\* lua.load(s).into_function() succeeds
Compiles(src) == \A i \in DOMAIN src : src[i] # "meta.h ="

GlobalNames == {"meta", "content", "saved", "yaml_dump"}

\* no Lua session yet
NoGlobals == [n \in GlobalNames |-> LNil]

\* the globals of Lua::new() after yaml_dump is registered
NewGlobals == [NoGlobals EXCEPT !["yaml_dump"] = LFun("yaml_dump")]

\* one statement run on the globals g: <<completed, the globals after>>
Exec(stmt, g) ==
    CASE stmt = "meta.h = meta.h .. 'f'" ->
            IF IsTable(g["meta"])
            THEN LET cur == RawGet(g["meta"], LStr(H))
                 IN  IF cur[1] = "String"
                     THEN <<TRUE, [g EXCEPT !["meta"] = RawSet(@, LStr(H), LStr(cur[2] \o F))]>>
                     ELSE IF cur[1] = "Integer"
                     THEN <<TRUE, [g EXCEPT !["meta"] =
                                      RawSet(@, LStr(H), LStr(Digits(cur[2]) \o F))]>>
                     ELSE <<FALSE, g>>
            ELSE <<FALSE, g>>
      [] stmt = "content = 'v'" -> <<TRUE, [g EXCEPT !["content"] = LStr(V)]>>
      [] stmt = "content.fudge = 'v'" ->
            IF IsTable(g["content"])
            THEN <<TRUE, [g EXCEPT !["content"] = RawSet(@, LStr(<<"fudge">>), LStr(V))]>>
            ELSE <<FALSE, g>>
      [] stmt = "meta = { h = 'w' }" ->
            <<TRUE, [g EXCEPT !["meta"] = LTable(FALSE, {<<LStr(H), LStr(W)>>})]>>
      [] stmt = "meta = nil" -> <<TRUE, [g EXCEPT !["meta"] = LNil]>>
      [] stmt = "meta = print" -> <<TRUE, [g EXCEPT !["meta"] = LFun("print")]>>
      [] stmt = "saved = meta" -> <<TRUE, [g EXCEPT !["saved"] = g["meta"]]>>
      [] stmt = "meta = saved" -> <<TRUE, [g EXCEPT !["meta"] = g["saved"]]>>
      [] stmt = "yaml_dump = nil" -> <<TRUE, [g EXCEPT !["yaml_dump"] = LNil]>>
      [] stmt = "error()" -> <<FALSE, g>>
      [] stmt = "meta.h =" -> <<FALSE, g>>

RECURSIVE Call(_, _)
\* script_fun.call(()): the statements in order, up to the first that fails
Call(src, g) ==
    IF src = <<>>
    THEN <<TRUE, g>>
    ELSE LET r == Exec(Head(src), g)
         IN  IF r[1] THEN Call(Tail(src), r[2]) ELSE r

\* the scripts given with -e
Scripts ==
    {<<>>} \cup {<<st>> : st \in Stmts}
           \cup {<<"content = 'v'", "meta.h = meta.h .. 'f'">>}

\* the script files given with -f; read_to_string fails on the last
ScriptFiles == {"fix.lua", "broken.lua", "missing.lua"}

ReadScript(path) ==
    CASE path = "fix.lua" -> Ok(<<"meta.h = meta.h .. 'f'">>)
      [] path = "broken.lua" -> Ok(<<"meta.h =">>)
      [] path = "missing.lua" -> Err("couldn't read script file")

(***************************************************************************)
(* Config::script and Fixer::new                                           *)
(***************************************************************************)
\* Config::script: Ok(the script source, None for the REPL) or the error
Config_script(c) ==
    IF IsSome(c.inline_script) /\ ~IsSome(c.script_path) /\ ~c.repl
    THEN Ok(Some(c.inline_script[2]))
    ELSE IF ~IsSome(c.inline_script) /\ IsSome(c.script_path) /\ ~c.repl
    THEN LET r == ReadScript(c.script_path[2])
         IN  IF IsOk(r) THEN Ok(Some(r[2])) ELSE r
    ELSE IF ~IsSome(c.inline_script) /\ ~IsSome(c.script_path) /\ c.repl
    THEN Ok(None)
    ELSE IF ~IsSome(c.inline_script) /\ ~IsSome(c.script_path) /\ ~c.repl
    THEN Err("must specify one of inline script, a script file, or REPL")
    ELSE Err("must specify only one of inline script, a script file, or REPL")

\* a slip: the script is not compiled up front
Fixer_new_lazy(src) == Ok(src)

\* Fixer::new: Ok(the script field) or the compile error
Fixer_new(src) ==
    IF IsSome(src) /\ ~Compiles(src[2])
    THEN Err("lua script didn't compile")
    ELSE Ok(src)

(***************************************************************************)
(* Fixer::fix, step by step                                                *)
(***************************************************************************)
\* a slip: every document gets a session of its own
BindMeta_freshSession(g, metadata) ==
    IF IsSome(metadata)
    THEN [NewGlobals EXCEPT !["meta"] = ToValue(metadata[2])]
    ELSE NewGlobals

\* a slip: meta is left alone when the document has no frontmatter
BindMeta_noClear(g, metadata) ==
    IF IsSome(metadata)
    THEN [g EXCEPT !["meta"] = ToValue(metadata[2])]
    ELSE g

\* globals.set("meta", to_value(metadata)) or globals.raw_remove("meta")
BindMeta(g, metadata) ==
    IF IsSome(metadata)
    THEN [g EXCEPT !["meta"] = ToValue(metadata[2])]
    ELSE [g EXCEPT !["meta"] = LNil]

\* a slip: content is bound only while the session has none
BindContent_once(g, body) ==
    IF g["content"] = LNil THEN [g EXCEPT !["content"] = LStr(body)] ELSE g

\* a slip: content is bound as a table that holds the text
BindContent_asTable(g, body) ==
    [g EXCEPT !["content"] = LTable(FALSE, {<<LStr(<<"text">>), LStr(body)>>})]

\* globals.set("content", content)
BindContent(g, body) == [g EXCEPT !["content"] = LStr(body)]

\* a slip: the body is read back from the session
FixBody_fromGlobals(g, body) ==
    IF g["content"][1] = "String" THEN g["content"][2] ELSE body

\* the body fix returns: the slice parse produced
FixBody(g, body) == body

(***************************************************************************)
(* main and process                                                        *)
(***************************************************************************)
MaxPaths == 2

MaxLines == 2

Unreadable == <<"Unreadable">>

Body == <<"B", "\n">>

Doc(block, body) == Rule \o block \o Rule \o body

\* the texts the files of the run may hold
Docs ==
    {Doc(YamlToString(v), Body) : v \in Decodable}
        \cup { Doc(<<>>, Body),
               Doc(<<"h", ":", " ", "w", "\n">>, Body \o Rule \o Body),
               Body,
               <<>>,
               Rule \o Body }

\* a slip: the first failure ends the batch
NextIdx_stopOnError(i, n, failed) == IF failed THEN n + 1 ELSE i + 1

\* the for loop of main: the position after the path at i
NextIdx(i, n, failed) == i + 1

Path == cfg.paths[idx]

Init ==
    /\ text = <<>>
    /\ parsed = Pending
    /\ cfg \in [ inline_script : {None} \cup {Some(src) : src \in Scripts},
                 script_path : {None} \cup {Some(f) : f \in ScriptFiles},
                 repl : BOOLEAN,
                 dry_run : BOOLEAN,
                 print_result : BOOLEAN,
                 paths : {[i \in 1..n |-> i] : n \in 0..MaxPaths} ]
    /\ pc = "start"
    /\ script = None
    /\ globals = NoGlobals
    /\ idx = 1
    /\ ok_paths = <<>>
    /\ err_paths = <<>>
    /\ content = <<>>
    /\ fixed = NoFix
    /\ fs = [p \in 1..(MaxPaths + 1) |-> "original"]
    /\ persisted = None
    /\ printed = None
    /\ stdin_eof = FALSE
    /\ lines_read = 0
    /\ attempts = <<>>
    /\ runs = 0
    /\ input = <<>>
    /\ reports = <<>>

\* main, lines 60-62: cfg.script()? and Fixer::new(..)?
Setup ==
    /\ pc = "start"
    /\ LET src == Config_script(cfg)
           new == IF IsOk(src) THEN Fixer_new(src[2]) ELSE src
       IN  IF IsOk(new)
           THEN /\ script' = new[2]
                /\ globals' = NewGlobals
                /\ pc' = "loop"
           ELSE /\ pc' = "aborted"
                /\ UNCHANGED <<script, globals>>
    /\ UNCHANGED <<input, reports>>
    /\ UNCHANGED <<text, parsed, cfg, idx, ok_paths, err_paths, content, fixed,
                   fs, persisted, printed, stdin_eof, lines_read, attempts, runs>>

\* process returns Err and its locals are dropped; the Err arm of main's
\* match: the path joins err_paths
Fail(e) ==
    /\ err_paths' = Append(err_paths, <<Path, e>>)
    /\ idx' = NextIdx(idx, Len(cfg.paths), TRUE)
    /\ pc' = "loop"
    /\ content' = <<>>
    /\ fixed' = NoFix
    /\ UNCHANGED ok_paths

\* the step goes on inside process
Continue(to) ==
    /\ pc' = to
    /\ UNCHANGED <<idx, ok_paths, err_paths>>

\* process, line 112: read_to_string(path)
Read ==
    /\ pc = "loop"
    /\ idx <= Len(cfg.paths)
    /\ attempts' = Append(attempts, Path)
    /\ \E d \in Docs \cup {Unreadable} :
           IF d = Unreadable
           THEN Fail("couldn't read file contents")
           ELSE /\ content' = d
                /\ Continue("read")
                /\ UNCHANGED fixed
    /\ UNCHANGED <<input, reports>>
    /\ UNCHANGED <<text, parsed, cfg, script, globals, fs, persisted, printed,
                   stdin_eof, lines_read, runs>>

\* a slip: content is bound before the metadata block is decoded
Bind_bindsFirst ==
    /\ pc = "read"
    /\ LET p == parse(content)
       IN  IF IsSome(p[1]) /\ ~IsOk(p[1][2])
           THEN /\ Fail("couldn't parse frontmatter")
                /\ globals' = BindContent(globals, p[2])
           ELSE /\ globals' =
                      BindContent(
                          BindMeta(globals,
                                   IF IsSome(p[1]) THEN Some(p[1][2][2]) ELSE None),
                          p[2])
                /\ Continue("bound")
                /\ UNCHANGED <<content, fixed>>
    /\ UNCHANGED <<input, reports>>
    /\ UNCHANGED <<text, parsed, cfg, script, fs, persisted, printed, stdin_eof,
                   lines_read, attempts, runs>>

\* fix, lines 175-195: parse, decode, bind meta and content
Bind ==
    /\ pc = "read"
    /\ LET p == parse(content)
       IN  IF IsSome(p[1]) /\ ~IsOk(p[1][2])
           THEN /\ Fail("couldn't parse frontmatter")
                /\ UNCHANGED globals
           ELSE /\ globals' =
                      BindContent(
                          BindMeta(globals,
                                   IF IsSome(p[1]) THEN Some(p[1][2][2]) ELSE None),
                          p[2])
                /\ Continue("bound")
                /\ UNCHANGED <<content, fixed>>
    /\ UNCHANGED <<input, reports>>
    /\ UNCHANGED <<text, parsed, cfg, script, fs, persisted, printed, stdin_eof,
                   lines_read, attempts, runs>>

\* fix, lines 197-202: the precompiled script is called once
RunScript ==
    /\ pc = "bound"
    /\ IsSome(script)
    /\ runs' = runs + 1
    /\ LET r == Call(script[2], globals)
       IN  /\ globals' = r[2]
           /\ IF r[1]
              THEN /\ Continue("ran")
                   /\ UNCHANGED <<content, fixed>>
              ELSE Fail("error in Lua script")
    /\ UNCHANGED <<input, reports>>
    /\ UNCHANGED <<text, parsed, cfg, script, fs, persisted, printed, stdin_eof,
                   lines_read, attempts>>

\* the lines typed at the REPL
ReplLines ==
    {"meta = { h = 'w' }", "meta = nil", "meta.h ="}

\* lua.load(&input).eval(): the buffer is compiled as one chunk and run;
\* <<completed, the globals after>>
Eval(buf, g) ==
    IF Compiles(buf) THEN Call(buf, g) ELSE <<FALSE, g>>

\* a slip: the buffer is not cleared after a line
ClearInput_keep(buf) == buf

\* input.clear()
ClearInput(buf) == <<>>

\* fix, lines 206-214: read_line appends one line to the buffer, the buffer
\* is evaluated, the outcome is printed and the buffer is cleared; the loop
\* goes on
ReplLine ==
    /\ pc \in {"bound", "repl"}
    /\ ~IsSome(script)
    /\ ~stdin_eof
    /\ lines_read < MaxLines
    /\ \E line \in ReplLines :
           LET buf == Append(input, line)
               r == Eval(buf, globals)
           IN  /\ globals' = r[2]
               /\ reports' = Append(reports, IF r[1] THEN "value" ELSE "error")
               /\ input' = ClearInput(buf)
    /\ lines_read' = lines_read + 1
    /\ runs' = runs + 1
    /\ pc' = "repl"
    /\ UNCHANGED <<text, parsed, cfg, script, idx, ok_paths, err_paths, content,
                   fixed, fs, persisted, printed, stdin_eof, attempts>>

\* fix, lines 206-209: read_line gives Ok(0) at end-of-stream, or fails; the
\* loop is left, the buffer is dropped and the record of the loop ends
ReplEnd ==
    /\ pc \in {"bound", "repl"}
    /\ ~IsSome(script)
    /\ \E eof \in BOOLEAN :
           /\ stdin_eof => eof
           /\ stdin_eof' = eof
    /\ input' = <<>>
    /\ reports' = <<>>
    /\ pc' = "ran"
    /\ UNCHANGED <<text, parsed, cfg, script, globals, idx, ok_paths, err_paths,
                   content, fixed, fs, persisted, printed, lines_read, attempts,
                   runs>>

\* fix, lines 218-226: meta is read back and converted
ReadBack ==
    /\ pc = "ran"
    /\ \E r \in FromValueOption(globals["meta"]) :
           IF IsOk(r)
           THEN /\ fixed' = <<r[2], FixBody(globals, parse(content)[2])>>
                /\ Continue("fixed")
                /\ UNCHANGED content
           ELSE Fail("couldn't convert metadata back from Lua representation")
    /\ UNCHANGED <<input, reports>>
    /\ UNCHANGED <<text, parsed, cfg, script, globals, fs, persisted, printed,
                   stdin_eof, lines_read, attempts, runs>>

\* process, lines 116-118: with -p the result is written to stdout
PrintResult ==
    /\ pc = "fixed"
    /\ IF cfg.print_result
       THEN \E done \in BOOLEAN :
                IF done
                THEN /\ printed' = Some(write(fixed[1], fixed[2]))
                     /\ Continue("printed")
                     /\ UNCHANGED <<content, fixed>>
                ELSE /\ Fail("couldn't write to stdout")
                     /\ UNCHANGED printed
       ELSE /\ Continue("printed")
            /\ UNCHANGED <<content, fixed, printed>>
    /\ UNCHANGED <<input, reports>>
    /\ UNCHANGED <<text, parsed, cfg, script, globals, fs, persisted, stdin_eof,
                   lines_read, attempts, runs>>

\* a slip: the result is written over the path itself, so that a failure
\* leaves the path changed
ModifyFile_inPlace ==
    /\ pc = "printed"
    /\ IF cfg.dry_run
       THEN /\ Continue("written")
            /\ UNCHANGED <<content, fixed, fs, persisted, printed>>
       ELSE \E done \in BOOLEAN :
                /\ fs' = [fs EXCEPT ![Path] = "replaced"]
                /\ IF done
                   THEN /\ persisted' = Some(write(fixed[1], fixed[2]))
                        /\ Continue("written")
                        /\ UNCHANGED <<content, fixed, printed>>
                   ELSE /\ Fail("couldn't modify file")
                        /\ printed' = None
                        /\ UNCHANGED persisted
    /\ UNCHANGED <<input, reports>>
    /\ UNCHANGED <<text, parsed, cfg, script, globals, stdin_eof, lines_read,
                   attempts, runs>>

\* process, lines 119-121, and modify_file: without -n the result is
\* written to a temporary file, which is renamed over the path; a failure
\* of any step leaves the path as it was
ModifyFile ==
    /\ pc = "printed"
    /\ IF cfg.dry_run
       THEN /\ Continue("written")
            /\ UNCHANGED <<content, fixed, fs, persisted, printed>>
       ELSE \E done \in BOOLEAN :
                IF done
                THEN /\ fs' = [fs EXCEPT ![Path] = "replaced"]
                     /\ persisted' = Some(write(fixed[1], fixed[2]))
                     /\ Continue("written")
                     /\ UNCHANGED <<content, fixed, printed>>
                ELSE /\ Fail("couldn't modify file")
                     /\ printed' = None
                     /\ UNCHANGED <<fs, persisted>>
    /\ UNCHANGED <<input, reports>>
    /\ UNCHANGED <<text, parsed, cfg, script, globals, stdin_eof, lines_read,
                   attempts, runs>>

\* process returns Ok(()) and its locals are dropped; the Ok arm of main's
\* match: the path joins ok_paths
Succeed ==
    /\ pc = "written"
    /\ ok_paths' = Append(ok_paths, Path)
    /\ idx' = NextIdx(idx, Len(cfg.paths), FALSE)
    /\ pc' = "loop"
    /\ content' = <<>>
    /\ fixed' = NoFix
    /\ persisted' = None
    /\ printed' = None
    /\ UNCHANGED <<input, reports>>
    /\ UNCHANGED <<text, parsed, cfg, script, globals, err_paths, fs, stdin_eof,
                   lines_read, attempts, runs>>

\* main, lines 95-108: the summary, after the last path
Summary ==
    /\ pc = "loop"
    /\ idx > Len(cfg.paths)
    /\ pc' = "finished"
    /\ UNCHANGED <<input, reports>>
    /\ UNCHANGED <<text, parsed, cfg, script, globals, idx, ok_paths, err_paths,
                   content, fixed, fs, persisted, printed, stdin_eof, lines_read,
                   attempts, runs>>

Next ==
    \/ Setup
    \/ Read
    \/ Bind
    \/ RunScript
    \/ ReplLine
    \/ ReplEnd
    \/ ReadBack
    \/ PrintResult
    \/ ModifyFile
    \/ Succeed
    \/ Summary

Spec == Init /\ [][Next]_vars

\* the run with a line source that answers: read_line returns a line,
\* end-of-stream or a failure whenever fix waits for it
SpecRepl == Spec /\ WF_vars(ReplLine \/ ReplEnd)

(***************************************************************************)
(* SpecParse: parse_raw applied to every text built of at most MaxPieces   *)
(* pieces.                                                                 *)
(***************************************************************************)
MaxPieces == 5

Pieces == {Rule, <<"-">>, <<"\n">>, <<"a">>, <<" ">>}

Texts ==
    {Flatten(ps) : ps \in UNION {[1..n -> Pieces] : n \in 0..MaxPieces}}

\* the batch loop does not run under SpecParse
Idle ==
    /\ cfg = [inline_script |-> None, script_path |-> None, repl |-> FALSE,
              dry_run |-> TRUE, print_result |-> FALSE, paths |-> <<>>]
    /\ pc = "parse"
    /\ script = None
    /\ globals = NoGlobals
    /\ idx = 1
    /\ ok_paths = <<>>
    /\ err_paths = <<>>
    /\ content = <<>>
    /\ fixed = NoFix
    /\ fs = [p \in 1..(MaxPaths + 1) |-> "original"]
    /\ persisted = None
    /\ printed = None
    /\ stdin_eof = FALSE
    /\ lines_read = 0
    /\ attempts = <<>>
    /\ runs = 0
    /\ input = <<>>
    /\ reports = <<>>

InitParse ==
    /\ text \in Texts
    /\ parsed = Pending
    /\ Idle

ParseRaw ==
    /\ parsed = Pending
    /\ parsed' = parse_raw(text)
    /\ UNCHANGED text
    /\ UNCHANGED mvars

NextParse == ParseRaw

SpecParse == InitParse /\ [][NextParse]_vars

(***************************************************************************)
(* Properties of the session and the batch loop (Spec)                     *)
(***************************************************************************)
\* the metadata block of the current document was found
HasFrontmatter == IsSome(parse_raw(content)[1])

\* the value the current document's metadata block decodes to
Decoded == parse(content)[1][2][2]

\* the body parse_raw gives for the current document
ParsedBodyOfDoc == parse_raw(content)[2]

\* C1: when the script is about to start for a document, meta is the bridge
\* image of the document's own decoded metadata, and nil when the document
\* has no frontmatter, whatever the earlier documents left in the session.
C1_StateIsolation ==
    pc = "bound" =>
        globals["meta"] = IF HasFrontmatter THEN ToValue(Decoded) ELSE LNil

\* C1 witness: the document before this one ended with a conversion error at
\* read-back (its meta was a function), this one has no frontmatter, and its
\* script starts with meta absent
C1_Witness ==
    /\ pc = "bound"
    /\ idx > 1
    /\ ~HasFrontmatter
    /\ err_paths # <<>>
    /\ err_paths[Len(err_paths)] =
           <<idx - 1, "couldn't convert metadata back from Lua representation">>
    /\ globals["meta"] = LNil

\* C5: with a script that performs no mutation, fix returns Some(v) for the
\* value v the metadata block decodes to, and the serialized block of the
\* output is the serialization of v.
C5_NoOpScriptIdempotent ==
    (pc = "fixed" /\ script = Some(<<>>) /\ HasFrontmatter) =>
        /\ fixed[1] = Some(Decoded)
        /\ write(fixed[1], <<>>) = write(Some(Decoded), <<>>)

\* C6: a decoded value converted to the engine at bind time and, left as it
\* is, converted back at read-back is the same value: no variant becomes
\* another variant or absent.
C6_BridgeRoundTrip ==
    (pc = "fixed" /\ HasFrontmatter /\ globals["meta"] = ToValue(Decoded)) =>
        fixed[1] = Some(Decoded)

\* C7: after a script that completed, the metadata fix returns is None when
\* meta is nil and Some(a conversion of meta) in every other case.
C7_ScriptAuthoritative ==
    pc = "fixed" =>
        IF globals["meta"] = LNil
        THEN fixed[1] = None
        ELSE IsSome(fixed[1]) /\ Ok(fixed[1][2]) \in FromValue(globals["meta"])

\* C8: the body fix returns, and the tail of the text written out, is the
\* body parse_raw produced, whatever the session holds in content.
C8_BodyImmutable ==
    /\ pc \in {"fixed", "printed", "written"} => fixed[2] = ParsedBodyOfDoc
    /\ \A out \in {persisted, printed} :
           IsSome(out) =>
               /\ Len(out[2]) >= Len(ParsedBodyOfDoc)
               /\ SliceFrom(out[2], Len(out[2]) - Len(ParsedBodyOfDoc)) = ParsedBodyOfDoc

\* C8 witness: the script reassigned content, and the file was replaced by a
\* text that ends with the document's body
C8_Witness ==
    /\ pc = "written"
    /\ IsSome(persisted)
    /\ ParsedBodyOfDoc # <<>>
    /\ globals["content"] = LStr(V)
    /\ IsSome(fixed[1])

\* the paths of a list of <<path, error>> pairs
PathsOf(errs) == [i \in DOMAIN errs |-> errs[i][1]]

Occurrences(seq, x) == Cardinality({i \in DOMAIN seq : seq[i] = x})

\* C9: the paths are attempted once each in input order, a failure of one
\* does not stop the next, and at the end every path is in exactly one of
\* ok_paths and err_paths.
C9_ErrorContainment ==
    /\ attempts = SubSeq(cfg.paths, 1, Len(attempts))
    /\ pc = "finished" =>
           /\ attempts = cfg.paths
           /\ Len(ok_paths) + Len(err_paths) = Len(cfg.paths)
           /\ \A i \in DOMAIN cfg.paths :
                  Occurrences(ok_paths, cfg.paths[i])
                      + Occurrences(PathsOf(err_paths), cfg.paths[i]) = 1

\* C9 witness: the first path failed and a later one succeeded
C9_Witness ==
    /\ pc = "finished"
    /\ Len(cfg.paths) >= 2
    /\ err_paths # <<>>
    /\ err_paths[1][1] = 1
    /\ ok_paths # <<>>

\* the configuration or the script is in error
RunLevelError ==
    \/ ~(\/ IsSome(cfg.inline_script) /\ ~IsSome(cfg.script_path) /\ ~cfg.repl
         \/ ~IsSome(cfg.inline_script) /\ IsSome(cfg.script_path) /\ ~cfg.repl
         \/ ~IsSome(cfg.inline_script) /\ ~IsSome(cfg.script_path) /\ cfg.repl)
    \/ IsSome(cfg.inline_script) /\ ~Compiles(cfg.inline_script[2])
    \/ IsSome(cfg.script_path) /\ cfg.script_path[2] \in {"broken.lua", "missing.lua"}

\* C10: with a run-level error the run ends before any document is read, any
\* script is run or any file is replaced.
C10_RunLevelErrorsAbortFirst ==
    (pc # "start" /\ RunLevelError) =>
        /\ pc = "aborted"
        /\ attempts = <<>>
        /\ runs = 0
        /\ \A p \in DOMAIN fs : fs[p] = "original"
        /\ persisted = None
        /\ printed = None

\* C10 witness: paths were given, the script does not compile, the run is
\* aborted
C10_Witness ==
    /\ pc = "aborted"
    /\ cfg.paths # <<>>
    /\ IsSome(cfg.inline_script)
    /\ ~IsSome(cfg.script_path)
    /\ ~cfg.repl

\* the metadata block of the current document is present and does not decode
DecodeFails ==
    /\ IsSome(parse(content)[1])
    /\ ~IsOk(parse(content)[1][2])

\* C11: for a document whose metadata block is present but does not decode,
\* parse reports the block as present with the right body, and the step of
\* fix that follows ends the document with the decode error, starts no
\* script and leaves every global of the session, meta and content included,
\* as it was.
C11_DecodeFailureScoped ==
    [][(pc = "read" /\ DecodeFails) =>
          /\ HasFrontmatter
          /\ Rule \o parse_raw(content)[1][2] \o Rule \o parse(content)[2] = content
          /\ err_paths' = Append(err_paths, <<Path, "couldn't parse frontmatter">>)
          /\ pc' = "loop"
          /\ runs' = runs
          /\ globals' = globals]_vars

\* C11 witness: the first document went through with its script run once,
\* the second had an empty block; meta and content are still those of the
\* first
C11_Witness ==
    /\ pc = "loop"
    /\ ok_paths = <<1>>
    /\ err_paths = <<<<2, "couldn't parse frontmatter">>>>
    /\ runs = 1
    /\ globals["meta"] # LNil
    /\ globals["content"] = LStr(Body)

\* the statement assigns the global meta
AssignsMeta(stmt) ==
    stmt \in {"meta = { h = 'w' }", "meta = nil", "meta = print", "meta = saved"}

\* the run has a precompiled script, and no statement of it assigns meta
ScriptLeavesMeta ==
    /\ IsSome(script)
    /\ \A i \in DOMAIN script[2] : ~AssignsMeta(script[2][i])

\* what fix and process do with a document without frontmatter once its
\* script is over: nothing is decoded, (None, the whole text) is returned,
\* and the text printed and the text put in place of the file are the text
\* read
PassesThrough ==
    /\ parse(content) = <<None, content>>
    /\ pc = "ran" => (pc' = "fixed" /\ fixed' = <<None, content>>)
    /\ (pc = "fixed" /\ cfg.print_result /\ pc' = "printed") =>
           printed' = Some(content)
    /\ (pc = "printed" /\ ~cfg.dry_run /\ pc' = "written") =>
           persisted' = Some(content)

\* C12 as stated: for a document without frontmatter and any script that
\* does not assign meta, whatever the session holds, fix decodes nothing,
\* succeeds and returns (None, the whole text), and the output is the input.
C12_AnyScriptPassesThrough ==
    [][(ScriptLeavesMeta /\ ~HasFrontmatter
            /\ pc \in {"bound", "ran", "fixed", "printed"}) =>
          /\ pc = "bound" => pc' = "ran"
          /\ PassesThrough]_vars

\* C12, amended: the same for a script that does not assign meta and
\* completes without an error.
C12_PassThrough ==
    [][(ScriptLeavesMeta /\ ~HasFrontmatter
            /\ pc \in {"bound", "ran", "fixed", "printed"}) =>
          /\ (pc = "bound" /\ Call(script[2], globals)[1]) => pc' = "ran"
          /\ PassesThrough]_vars

\* C12 witness: the second document begins with a rule that is never
\* closed; the script reassigned content for the first document and for
\* this one, and the text put in place of the file is the text read
C12_Witness ==
    /\ pc = "written"
    /\ idx = 2
    /\ script = Some(<<"content = 'v'">>)
    /\ content = Rule \o Body
    /\ fixed = <<None, content>>
    /\ persisted = Some(content)
    /\ globals["content"] = LStr(V)

\* C13: every text written out, to stdout or in place of the file, is, for
\* a result Some(v), the rule "---\n", the serialization of v, the rule
\* again and the body, in that order and with nothing else; for a result
\* None it is the body alone.
C13_OutputShape ==
    \A out \in {persisted, printed} :
        IsSome(out) =>
            out[2] = IF IsSome(fixed[1])
                     THEN Flatten(<<Rule, YamlToString(fixed[1][2]), Rule, fixed[2]>>)
                     ELSE fixed[2]

\* C13 witness: a mapping the script changed and a body that holds a rule of
\* its own were printed and put in place of the file
C13_Witness ==
    /\ pc = "written"
    /\ IsSome(persisted)
    /\ IsSome(printed)
    /\ fixed[1] = Some(YMap(<<<<YStr(H), YStr(W \o F)>>>>))
    /\ fixed[2] = Body \o Rule \o Body

\* the script of the run is the one statement that writes a field of content
WritesContentField ==
    /\ IsSome(script)
    /\ script[2] = <<"content.fudge = 'v'">>

\* C14: a script that writes a field onto content fails at that statement:
\* the step that runs it ends the document with the script error and
\* changes no global, and no document of the run gets past its script, has a
\* result returned, or joins ok_paths.
C14_ContentIsOpaque ==
    [][WritesContentField =>
          /\ pc = "bound" =>
                 /\ err_paths' = Append(err_paths, <<Path, "error in Lua script">>)
                 /\ pc' = "loop"
                 /\ globals' = globals
          /\ pc' \notin {"ran", "fixed", "printed", "written"}
          /\ fixed' = NoFix
          /\ ok_paths' = <<>>
          /\ fs' = fs]_vars

\* C14 witness: two documents were given to that script, outside dry-run,
\* the second the empty text; both ended with the script error
C14_Witness ==
    /\ WritesContentField
    /\ pc = "finished"
    /\ ~cfg.dry_run
    /\ err_paths = <<<<1, "error in Lua script">>, <<2, "error in Lua script">>>>
    /\ globals["content"] = LStr(<<>>)
    /\ globals["meta"] = LNil

\* fix is in its read-evaluate loop
InRepl == pc \in {"bound", "repl"} /\ ~IsSome(script)

\* one step of the loop: the buffer is empty before the read, so that the
\* line read is evaluated on its own, on the globals the lines before it
\* left; whatever the outcome, it is reported, the document goes on and no
\* error is recorded; the loop is left only with nothing evaluated, at
\* end-of-stream or a read failure
ReplStep ==
    /\ input = <<>>
    /\ err_paths' = err_paths
    /\ idx' = idx
    /\ \/ /\ pc' = "repl"
          /\ ~stdin_eof
          /\ lines_read' = lines_read + 1
          /\ \E line \in ReplLines :
                 /\ globals' = Exec(line, globals)[2]
                 /\ reports' = Append(reports, IF Exec(line, globals)[1]
                                               THEN "value" ELSE "error")
       \/ /\ pc' = "ran"
          /\ globals' = globals
          /\ lines_read' = lines_read

\* C15: without a precompiled script, fix evaluates the lines of the source
\* one by one, each on its own in the persistent session; a failing line is
\* reported and the loop goes on; the loop is left exactly at end-of-stream
\* or a read failure, without an error for the document, and meta is read
\* back only after that; with a source that answers and closes, the loop is
\* left.
C15_InteractiveLoop ==
    /\ [][InRepl => ReplStep]_vars
    /\ [][(~IsSome(script) /\ pc' = "fixed") => pc = "ran"]_vars
    /\ [][(~IsSome(script) /\ pc' = "ran") => InRepl]_vars
    /\ InRepl ~> (pc = "ran")

\* C15 witness: for the first document, which has frontmatter, the first
\* line failed and was reported, the second was evaluated and cleared meta
C15_Witness ==
    /\ pc = "repl"
    /\ idx = 1
    /\ HasFrontmatter
    /\ reports = <<"error", "value">>
    /\ globals["meta"] = LNil
    /\ input = <<>>

\* the files replaced are those of the paths that succeeded, and of the
\* current path once modify_file has returned; none in dry-run mode, and
\* none of a path that failed
ReplacedOnlyDone ==
    \A p \in DOMAIN fs :
        fs[p] = "replaced" =>
            /\ ~cfg.dry_run
            /\ \/ \E i \in DOMAIN ok_paths : ok_paths[i] = p
               \/ pc = "written" /\ p = Path
            /\ \A i \in DOMAIN err_paths : err_paths[i][1] # p

\* C16: a file changes only in the step of modify_file that follows a
\* successful fix, the file is that of the current path, and what is put in
\* its place is the complete text reassembled from what fix returned; the
\* file of a path whose read, decoding, script, read-back or write failed is
\* the original, and in dry-run mode every file is.
C16_ReplaceOnlyAfterSuccess ==
    [][/\ ReplacedOnlyDone'
       /\ fs' # fs =>
              /\ pc = "printed"
              /\ pc' = "written"
              /\ ~cfg.dry_run
              /\ fixed' = fixed
              /\ fs' = [fs EXCEPT ![Path] = "replaced"]
              /\ persisted' = Some(write(fixed[1], fixed[2]))]_vars

\* C16 witness: outside dry-run, modify_file failed for the first path,
\* whose file is the original, and the file of the second was replaced
C16_Witness ==
    /\ pc = "finished"
    /\ ~cfg.dry_run
    /\ err_paths = <<<<1, "couldn't modify file">>>>
    /\ ok_paths = <<2>>
    /\ fs[1] = "original"
    /\ fs[2] = "replaced"

\* the globals other than those fix binds
OtherGlobals == GlobalNames \ {"meta", "content"}

\* C17: a global other than meta and content changes only in a step that
\* creates the session or runs the script or a REPL line: the binding step
\* of fix, and every step by which a document fails or succeeds, leaves it
\* as it is, so that the script of the next document finds it.
C17_BindingFrame ==
    [][\A n \in OtherGlobals :
           globals'[n] # globals[n] =>
               \/ pc = "start"
               \/ pc = "bound" /\ IsSome(script)
               \/ InRepl]_vars

\* C17 witness: the script saved the meta of the first document, which then
\* failed at modify_file; the second document has no frontmatter, and at
\* the start of its script saved still holds the table
C17_Witness ==
    /\ pc = "bound"
    /\ idx = 2
    /\ script = Some(<<"saved = meta">>)
    /\ err_paths = <<<<1, "couldn't modify file">>>>
    /\ globals["meta"] = LNil
    /\ IsTable(globals["saved"])

\* C19: when the script, or the REPL loop, is about to start for a
\* document, the global content is the string of the body parse_raw gives
\* for that document, whatever earlier scripts assigned to content and
\* however the earlier documents ended.
C19_ContentIsOwnBody ==
    pc = "bound" => globals["content"] = LStr(ParsedBodyOfDoc)

\* C19 witness: the script reassigned content for the first document, which
\* then failed at stdout; the second document's script starts with the
\* second document's body, which holds a rule of its own
C19_Witness ==
    /\ pc = "bound"
    /\ idx = 2
    /\ script = Some(<<"content = 'v'">>)
    /\ err_paths = <<<<1, "couldn't write to stdout">>>>
    /\ ParsedBodyOfDoc = Body \o Rule \o Body
    /\ globals["content"] = LStr(Body \o Rule \o Body)

(***************************************************************************)
(* Properties of parse_raw (SpecParse)                                     *)
(***************************************************************************)
\* the text has "---\n" at 1-based position p
OccursAt(s, p) == p >= 1 /\ p + 3 <= Len(s) /\ SubSeq(s, p, p + 3) = Rule

BeginsWithRule(s) == OccursAt(s, 1)

HasFurtherRule(s) == \E p \in 5..Len(s) : OccursAt(s, p)

ParsedMeta == parsed[1][2]

ParsedBody == parsed[2]

\* C2: a text that begins with "---\n" and holds a further "---\n" parses to
\* (Some(m), b) with "---\n" ++ m ++ "---\n" ++ b the text, m ending where the
\* next occurrence of the rule starts (no occurrence starts inside m's span),
\* so that every later rule stays in b.
C2_DelimiterLaw ==
    (parsed # Pending /\ BeginsWithRule(text) /\ HasFurtherRule(text)) =>
        /\ IsSome(parsed[1])
        /\ Rule \o ParsedMeta \o Rule \o ParsedBody = text
        /\ OccursAt(text, 5 + Len(ParsedMeta))
        /\ \A p \in 5..(4 + Len(ParsedMeta)) : ~OccursAt(text, p)

\* C2 witness: a non-empty block, and a third rule left verbatim in the body
C2_Witness ==
    /\ parsed # Pending
    /\ IsSome(parsed[1])
    /\ ParsedMeta # <<>>
    /\ \E p \in 1..Len(ParsedBody) : OccursAt(ParsedBody, p)

\* C3: a text that does not begin with "---\n", or begins with it and holds no
\* second one, parses to (None, the whole text).
C3_NoFrontmatterLaw ==
    (parsed # Pending /\ ~(BeginsWithRule(text) /\ HasFurtherRule(text))) =>
        parsed = <<None, text>>

\* C3 witness: an unclosed leading rule, reported as body
C3_Witness ==
    /\ parsed = <<None, text>>
    /\ BeginsWithRule(text)
    /\ Len(text) > RULE_LENGTH

\* C3 witness, second case: rules later in a text that does not begin with one
C3_WitnessLater ==
    /\ parsed = <<None, text>>
    /\ ~BeginsWithRule(text)
    /\ \E p \in 2..Len(text) : \E q \in (p + 4)..Len(text) :
           OccursAt(text, p) /\ OccursAt(text, q)

\* C4: the rule that closes the metadata block is a whole line: it starts
\* right after the opening line or right after a newline.
C4_ClosingRuleIsWholeLine ==
    (parsed # Pending /\ IsSome(parsed[1])) =>
        \/ ParsedMeta = <<>>
        \/ text[RULE_LENGTH + Len(ParsedMeta)] = "\n"

\* parse_raw gets to its assertions for the text: it begins with a rule and
\* match_indices yields a second one
ReachesAssertions(s) == NextRule(s, 0) = 0 /\ CloseRule(s) # -1

\* C18: parse_raw returns for every text; when it reaches its assertions,
\* start <= close and close + 4 <= the length of the text hold, and the
\* ranges [4, close) and [close + 4, length) lie within the text.
C18_ParseRawNeverFails ==
    parsed # Pending =>
        /\ parsed # Panic
        /\ ReachesAssertions(text) =>
               LET close == CloseRule(text)
               IN  /\ RULE_LENGTH <= close
                   /\ close + RULE_LENGTH <= Len(text)
                   /\ 0 <= RULE_LENGTH /\ close <= Len(text)
                   /\ Len(ParsedMeta) = close - RULE_LENGTH
                   /\ Len(ParsedBody) = Len(text) - (close + RULE_LENGTH)

\* C18 witness: "---\n---\n", where close = start and close + 4 is the
\* length of the text: an empty block and an empty body
C18_Witness ==
    /\ text = Rule \o Rule
    /\ ReachesAssertions(text)
    /\ CloseRule(text) = RULE_LENGTH
    /\ parsed = <<Some(<<>>), <<>>>>

\* C18 witness, second case: "---\n" alone does not reach the assertions
C18_WitnessAlone ==
    /\ text = Rule
    /\ parsed = <<None, text>>

====
